---- MODULE Spec2Model ----
(***************************************************************************)
(* The per-CPU slab-cached kernel heap of moss-kernel.                     *)
(*                                                                         *)
(*   src/src/arch/arm64/memory/heap.rs          PerCpuCache, KHeap         *)
(*   src/libkernel/src/memory/allocators/slab/cache.rs  PtrCache, SlabCache*)
(*                                                                         *)
(* The size-class slab manager (try_alloc / alloc / free), alloc_order and *)
(* the frame allocator are collaborators whose code is outside the source  *)
(* tree at hand; they are modelled from their documented contracts.        *)
(***************************************************************************)
EXTENDS Integers, Sequences, FiniteSets, TLC

(***************************************************************************)
(* Program constants                                                       *)
(***************************************************************************)
PTRS_PER_SZ_CLASS == 32

PAGE_SIZE == 4096

MIN_SHIFT == 3

SLAB_MAX_OBJ_SHIFT == 8

NUM_PTR_CACHES == SLAB_MAX_OBJ_SHIFT + 1

(***************************************************************************)
(* Bounds of the model                                                     *)
(***************************************************************************)
NumFrames == 6

(* Page frames of the machine; the huge-path scenarios have all of them. *)
MemFrames == 16

MaxCalls == 4

MaxIrqs == 1

(* Calls made in the runs checked for termination. *)
LiveCalls == 3

(* Scripted CPUs take turns every SwitchEvery completed calls. *)
SwitchEvery == 40

NULL == 0

None == "none"

CPUs == {0, 1}

Tasks == {"t0", "t1"}

Handler(c) == IF c = 0 THEN "h0" ELSE "h1"

Handlers == {Handler(c) : c \in CPUs}

Ctxs == Tasks \cup Handlers

Max(a, b) == IF a >= b THEN a ELSE b

Pow2(n) == 2 ^ n

(* usize::next_power_of_two().ilog2(): the least e with 2^e >= n (n >= 1). *)
RECURSIVE CeilLog2From(_, _)
CeilLog2From(n, e) == IF Pow2(e) >= n THEN e ELSE CeilLog2From(n, e + 1)

CeilLog2(n) == CeilLog2From(n, 0)

(* usize::div_ceil *)
DivCeil(a, b) == (a + b - 1) \div b

(***************************************************************************)
(* Layouts and size classes                                                *)
(***************************************************************************)
Layout(size, align) == [size |-> size, align |-> align]

(* alloc_order(layout): the size-class index, or NoClass (None) for the
   huge path. *)
NoClass == 0 - 1

(* Variant: the class is computed from the size alone. *)
alloc_order_size_only(layout) ==
    LET n == Max(layout.size, 1)
        l == CeilLog2(n)
        k == IF l > MIN_SHIFT THEN l - MIN_SHIFT ELSE 0
    IN  IF k > SLAB_MAX_OBJ_SHIFT THEN NoClass ELSE k

alloc_order(layout) ==
    LET n == Max(Max(layout.size, layout.align), 1)
        l == CeilLog2(n)
        k == IF l > MIN_SHIFT THEN l - MIN_SHIFT ELSE 0
    IN  IF k > SLAB_MAX_OBJ_SHIFT THEN NoClass ELSE k

Classes == 0..(NUM_PTR_CACHES - 1)

ObjSize(k) == Pow2(k + MIN_SHIFT)

(* Variant: the size is rounded down to whole pages. *)
huge_order_floor(layout) ==
    CeilLog2(Max(layout.size, layout.align) \div PAGE_SIZE)

(* KHeap::calculate_huge_order *)
calculate_huge_order(layout) ==
    LET size == Max(layout.size, layout.align)
        pages_needed == DivCeil(size, PAGE_SIZE)
    IN  CeilLog2(pages_needed)

(* Kernel virtual address of a page frame (linear map, offset dropped).    *)
PageVA(pfn) == pfn * PAGE_SIZE

PageOf(ptr) == ptr \div PAGE_SIZE

(***************************************************************************)
(* PtrCache: one magazine                                                  *)
(***************************************************************************)
Slots == 0..(PTRS_PER_SZ_CLASS - 1)

PtrCacheNew == [next_free |-> 0, ptrs |-> [i \in Slots |-> NULL]]

is_empty(pc) == pc.next_free = 0

is_full(pc) == pc.next_free = PTRS_PER_SZ_CLASS

(* PtrCache::alloc, first statement: self.next_free -= 1 *)
PtrCacheAllocDec(pc) == [pc EXCEPT !.next_free = @ - 1]

(* PtrCache::alloc, result: Some(self.ptrs[self.next_free]) *)
PtrCacheAllocRead(pc) == pc.ptrs[pc.next_free]

(* PtrCache::free, first statement: self.ptrs[self.next_free] = ptr *)
PtrCacheFreeStore(pc, ptr) == [pc EXCEPT !.ptrs[pc.next_free] = ptr]

(* PtrCache::free, second statement: self.next_free += 1 *)
PtrCacheFreeInc(pc) == [pc EXCEPT !.next_free = @ + 1]

(* Variant: the slot at the count is read before the count is lowered. *)
PtrCacheAllocStale(pc) ==
    IF is_empty(pc) THEN [cache |-> pc, ok |-> FALSE, ptr |-> NULL]
    ELSE [cache |-> PtrCacheAllocDec(pc), ok |-> TRUE, ptr |-> PtrCacheAllocRead(pc)]

(* PtrCache::alloc: None on an empty magazine, else the popped pointer. *)
PtrCacheAlloc(pc) ==
    IF is_empty(pc) THEN [cache |-> pc, ok |-> FALSE, ptr |-> NULL]
    ELSE [cache |-> PtrCacheAllocDec(pc), ok |-> TRUE,
          ptr |-> PtrCacheAllocRead(PtrCacheAllocDec(pc))]

(* PtrCache::free: Err(ptr) on a full magazine, else the pointer is pushed. *)
PtrCacheFree(pc, ptr) ==
    IF is_full(pc) THEN [cache |-> pc, ok |-> FALSE, ptr |-> ptr]
    ELSE [cache |-> PtrCacheFreeInc(PtrCacheFreeStore(pc, ptr)), ok |-> TRUE,
          ptr |-> NULL]

(* The pointers a magazine holds. *)
MagSet(pc) == {pc.ptrs[i] : i \in 0..(pc.next_free - 1)}

(***************************************************************************)
(* SlabManager: the backing allocator of one size class                    *)
(***************************************************************************)
SlabNew == [free_list |-> <<>>, pages |-> <<>>]

(* All slots of a fresh slab page, lowest address at the head. *)
Carve(pfn, k) ==
    LET size == ObjSize(k)
    IN  [i \in 1..(PAGE_SIZE \div size) |-> PageVA(pfn) + (i - 1) * size]

(* SlabManager::try_alloc: pop the head of the free list, never grows. *)
SlabTryAllocPtr(slab) == IF slab.free_list = <<>> THEN NULL ELSE Head(slab.free_list)

SlabTryAllocRest(slab) ==
    IF slab.free_list = <<>> THEN slab ELSE [slab EXCEPT !.free_list = Tail(@)]

(* SlabManager::free: push onto the head of the free list. *)
SlabFree(slab, ptr) == [slab EXCEPT !.free_list = <<ptr>> \o @]

(* SlabManager::alloc when the free list is empty: thread a fresh page. *)
SlabGrow(slab, pfn, k) ==
    [slab EXCEPT !.free_list = Carve(pfn, k), !.pages = Append(@, pfn)]

(* Variant: the pointers taken off the free list are not stored. *)
fill_from_leak(pc, slab) == [cache |-> pc, slab |-> [slab EXCEPT !.free_list = <<>>]]

(* PtrCache::fill_from: while !is_full and try_alloc yields a pointer, push.
   (c and s are the values of pc and slab, computed once per iteration.) *)
RECURSIVE fill_from(_, _)
fill_from(pc, slab) ==
    CHOOSE r \in
        {IF ~is_full(c) /\ SlabTryAllocPtr(s) # NULL
         THEN fill_from(PtrCacheFreeInc(PtrCacheFreeStore(c, SlabTryAllocPtr(s))),
                        SlabTryAllocRest(s))
         ELSE [cache |-> c, slab |-> s] : c \in {pc}, s \in {slab}} : TRUE

(* PtrCache::drain_into: next_free >> 1 times, pop the top and free it.
   (c and s are the values of pc and slab, computed once per iteration.) *)
RECURSIVE drain_loop(_, _, _)
drain_loop(pc, slab, n) ==
    CHOOSE r \in
        {IF n = 0 THEN [cache |-> c, slab |-> s]
         ELSE LET dec == PtrCacheAllocDec(c)
              IN  drain_loop(dec, SlabFree(s, dec.ptrs[dec.next_free]), n - 1) :
            c \in {pc}, s \in {slab}} : TRUE

(* Variant: the drained pointers are freed but stay counted in the cache. *)
drain_into_keep(pc, slab) ==
    [cache |-> pc, slab |-> drain_loop(pc, slab, pc.next_free \div 2).slab]

(* Variant: the whole magazine is drained, not half of it. *)
drain_into_all(pc, slab) == drain_loop(pc, slab, pc.next_free)

(* PtrCache::drain_into *)
drain_into(pc, slab) == drain_loop(pc, slab, pc.next_free \div 2)

(* SlabCache::from_page: every magazine of the bundle written empty. *)
SlabCacheNew == [k \in Classes |-> PtrCacheNew]

(***************************************************************************)
(* Frame allocator (PAGE_ALLOC)                                            *)
(***************************************************************************)
BlockFrames(start, order) == start..(start + Pow2(order) - 1)

(* Free, naturally aligned blocks of 2^order frames. *)
FreeBlocks(used, order) ==
    {s \in 1..MemFrames : /\ (s - 1) % Pow2(order) = 0
                         /\ BlockFrames(s, order) \subseteq 1..MemFrames
                         /\ BlockFrames(s, order) \cap used = {}}

(* alloc_frames(order): the start frame of the block handed out, or NULL. *)
alloc_frames(used, order) ==
    IF FreeBlocks(used, order) = {} THEN NULL
    ELSE CHOOSE s \in FreeBlocks(used, order) :
             \A o \in FreeBlocks(used, order) : s <= o

(***************************************************************************)
(* State                                                                   *)
(***************************************************************************)
VARIABLES
    tpidr,      \* TPIDR_EL1 of each CPU: frame of its SlabCache, or NULL
    bundle,     \* contents of every SlabCache page, by frame
    slabs,      \* SLAB_ALLOC: the SlabManager of each size class
    slabInit,   \* SLAB_ALLOC (OnceLock) has been set
    lock,       \* holder of each class's SpinLockIrq, or None
    fa_used,    \* PAGE_ALLOC: frames handed out (claimed or leaked)
    mask,       \* per CPU: the context running with interrupts masked, or None
    pc,         \* per context: position inside alloc / dealloc
    on,         \* per context: the CPU it executes on
    loc,        \* per context: locals of the call in progress
    calls,      \* calls that may still be started
    irqs,       \* per CPU: interrupts delivered
    live,       \* <<pointer, layout>> pairs held by callers
    stats,      \* instrumentation: completed calls, lock acquisitions
    script,     \* per task: scripted phases (empty: free-running)
    sp,         \* per task: position in its script
    ret         \* per task: pointers returned to it, in order (scripted runs)

vars == <<tpidr, bundle, slabs, slabInit, lock, fa_used, mask, pc, on, loc,
          calls, irqs, live, stats, script, sp, ret>>

NoLoc == [op |-> None, layout |-> Layout(0, 0), cache |-> NULL, flags |-> FALSE,
          cls |-> NoClass, ptr |-> NULL, lflags |-> FALSE]

(* Instrumentation: calls completed, and slab-lock acquisitions of each
   context, in total and by scripted phase. *)
NoStats == [alloc |-> 0, dealloc |-> 0, locks |-> [x \in Ctxs |-> 0],
            phlocks |-> [x \in Ctxs |-> [p \in 1..3 |-> 0]]]

HomeCpu(x) == IF x \in {"t0", "h0"} THEN 0 ELSE 1

(* The magazine a context is working on: cache.get_cache(layout). *)
CacheLine(x) == bundle[loc[x].cache][loc[x].cls]

SetCacheLine(x, line) == [bundle EXCEPT ![loc[x].cache][loc[x].cls] = line]

(* A context executes only while no other context holds its CPU with
   interrupts masked. *)
CanRun(x) == mask[on[x]] \in {None, x}

(* Task context makes calls with interrupts enabled; a handler makes them
   between exception entry and return, with interrupts masked. *)
AtCallSite(x) ==
    /\ pc[x] = "idle"
    /\ IF x \in Tasks THEN mask[on[x]] = None ELSE mask[on[x]] = x

Recording(x) == x \in Tasks /\ script[x] # <<>>

PhaseOf(x) == IF Recording(x) THEN sp[x].ph ELSE 1

(***************************************************************************)
(* Boot-time initialisation                                                *)
(***************************************************************************)
(* SLAB_ALLOC.set(..): the global slab set comes into existence. *)
InitSlab ==
    /\ ~slabInit
    /\ slabInit' = TRUE
    /\ UNCHANGED <<tpidr, bundle, slabs, lock, fa_used, mask, pc, on, loc, calls,
                   irqs, live, stats, script, sp, ret>>

(* Variant: the page is not leaked, so its frame is back with the frame
   allocator when init_for_this_cpu returns. *)
init_no_leak(c) ==
    /\ mask[c] = None
    /\ alloc_frames(fa_used, 0) # NULL
    /\ LET page == alloc_frames(fa_used, 0)
       IN  /\ bundle' = (page :> SlabCacheNew) @@ bundle
           /\ tpidr' = [tpidr EXCEPT ![c] = page]
    /\ UNCHANGED <<fa_used, slabs, slabInit, lock, mask, pc, on, loc, calls,
                   irqs, live, stats, script, sp, ret>>

(* KHeap::init_for_this_cpu on CPU c, whatever TPIDR_EL1 holds. *)
init_for_this_cpu(c) ==
    /\ mask[c] = None
    /\ alloc_frames(fa_used, 0) # NULL
    /\ LET page == alloc_frames(fa_used, 0)
       IN  /\ fa_used' = fa_used \cup {page}
           /\ bundle' = (page :> SlabCacheNew) @@ bundle
           /\ tpidr' = [tpidr EXCEPT ![c] = page]
    /\ UNCHANGED <<slabs, slabInit, lock, mask, pc, on, loc, calls, irqs, live,
                   stats, script, sp, ret>>

(* The boot path runs init_for_this_cpu once on each CPU. *)
InitCpu(c) ==
    /\ tpidr[c] = NULL
    /\ init_for_this_cpu(c)

(***************************************************************************)
(* PerCpuCache::get / Drop                                                 *)
(***************************************************************************)
(* The scripted phase a task is in, and what it does next. *)
Phase(t) == script[t][sp[t].ph]

(* Variant: the pointer read from TPIDR_EL1 is used unchecked. *)
GetNoCheck(cache) == "get_irq"

(* get(): if cache.is_null() { panic!(..) } *)
GetCheck(cache) == IF cache = NULL THEN "panic" ELSE "get_irq"

(* get(), first half: mrs TPIDR_EL1 and the null check. *)
GetRead(x, op, layout, ptr) ==
    /\ loc' = [loc EXCEPT ![x] = [NoLoc EXCEPT !.op = op, !.layout = layout,
                                               !.ptr = ptr,
                                               !.cache = tpidr[on[x]]]]
    /\ pc' = [pc EXCEPT ![x] = GetCheck(tpidr[on[x]])]
    /\ calls' = calls - 1

(* Variant: interrupts are left as they are. *)
no_disable_interrupts(x) == mask

(* ArchImpl::disable_interrupts() on the CPU the context executes on. *)
disable_interrupts(x) == [mask EXCEPT ![on[x]] = x]

(* get(), second half: flags = ArchImpl::disable_interrupts(). *)
GetDisableIrq(x) ==
    /\ pc[x] = "get_irq"
    /\ CanRun(x)
    /\ loc' = [loc EXCEPT ![x].flags = (mask[on[x]] # None)]
    /\ mask' = disable_interrupts(x)
    /\ pc' = [pc EXCEPT ![x] = IF loc[x].op = "alloc" THEN "a_cache" ELSE "d_cache"]
    /\ UNCHANGED <<tpidr, bundle, slabs, slabInit, lock, fa_used, on, calls, irqs,
                   live, stats, script, sp, ret>>

(* Variant: interrupts are enabled whatever the saved flags say. *)
restore_enabled(x) == [mask EXCEPT ![on[x]] = None]

(* Drop for PerCpuCache: restore_interrupt_state(flags); the call returns. *)
restore_interrupt_state(x) == [mask EXCEPT ![on[x]] = IF loc[x].flags THEN x ELSE None]

ScriptAdvance(t) ==
    IF Recording(t)
    THEN IF sp[t].done + 1 >= Phase(t).n
         THEN [sp EXCEPT ![t] = [ph |-> @.ph + 1, done |-> 0]]
         ELSE [sp EXCEPT ![t].done = @ + 1]
    ELSE sp

DropCache(x) ==
    /\ pc[x] = "drop"
    /\ CanRun(x)
    /\ mask' = restore_interrupt_state(x)
    /\ pc' = [pc EXCEPT ![x] = "idle"]
    /\ loc' = [loc EXCEPT ![x] = NoLoc]
    /\ IF loc[x].op = "alloc"
       THEN /\ live' = live \cup {<<loc[x].ptr, loc[x].layout>>}
            /\ stats' = [stats EXCEPT !.alloc = @ + 1]
            /\ ret' = IF Recording(x) THEN [ret EXCEPT ![x] = Append(@, loc[x].ptr)]
                      ELSE ret
       ELSE /\ stats' = [stats EXCEPT !.dealloc = @ + 1]
            /\ UNCHANGED <<live, ret>>
    /\ sp' = IF x \in Tasks THEN ScriptAdvance(x) ELSE sp
    /\ UNCHANGED <<tpidr, bundle, slabs, slabInit, lock, fa_used, on, calls, irqs,
                   script>>

(***************************************************************************)
(* KHeap::alloc                                                            *)
(***************************************************************************)
AllocEnter(x, layout) ==
    /\ AtCallSite(x)
    /\ GetRead(x, "alloc", layout, NULL)
    /\ UNCHANGED <<tpidr, bundle, slabs, slabInit, lock, fa_used, mask, on, irqs,
                   live, stats, script, sp, ret>>

(* cache.get_cache(layout), then cache_line.alloc() up to its decrement. *)
AllocCache(x) ==
    /\ pc[x] = "a_cache"
    /\ CanRun(x)
    /\ LET k == alloc_order(loc[x].layout)
       IN  IF k = NoClass
           THEN /\ pc' = [pc EXCEPT ![x] = "a_huge"]
                /\ UNCHANGED <<loc, bundle>>
           ELSE /\ loc' = [loc EXCEPT ![x].cls = k]
                /\ IF is_empty(bundle[loc[x].cache][k])
                   THEN /\ pc' = [pc EXCEPT ![x] = "a_lock"]
                        /\ UNCHANGED bundle
                   ELSE /\ pc' = [pc EXCEPT ![x] = "a_read"]
                        /\ bundle' = [bundle EXCEPT ![loc[x].cache][k] =
                                          PtrCacheAllocDec(@)]
    /\ UNCHANGED <<tpidr, slabs, slabInit, lock, fa_used, mask, on, calls, irqs,
                   live, stats, script, sp, ret>>

(* cache_line.alloc(): Some(self.ptrs[self.next_free]); fast path return. *)
AllocRead(x) ==
    /\ pc[x] = "a_read"
    /\ CanRun(x)
    /\ IF CacheLine(x).next_free \in Slots
       THEN /\ loc' = [loc EXCEPT ![x].ptr = PtrCacheAllocRead(CacheLine(x))]
            /\ pc' = [pc EXCEPT ![x] = "drop"]
       ELSE /\ pc' = [pc EXCEPT ![x] = "panic"]   \* index out of bounds
            /\ UNCHANGED loc
    /\ UNCHANGED <<tpidr, bundle, slabs, slabInit, lock, fa_used, mask, on, calls,
                   irqs, live, stats, script, sp, ret>>

(* lock_save_irq(): interrupts are disabled and their previous state kept
   in the guard; the lock is taken when it is free. *)
LockSaveIrq(x, next) ==
    /\ lock[loc[x].cls] = None
    /\ lock' = [lock EXCEPT ![loc[x].cls] = x]
    /\ loc' = [loc EXCEPT ![x].lflags = (mask[on[x]] # None)]
    /\ mask' = disable_interrupts(x)
    /\ stats' = [stats EXCEPT !.locks[x] = @ + 1,
                                !.phlocks[x][PhaseOf(x)] = @ + 1]
    /\ pc' = [pc EXCEPT ![x] = next]
    /\ UNCHANGED <<tpidr, bundle, slabs, slabInit, fa_used, on, calls, irqs, live,
                   script, sp, ret>>

(* Variant: the slab set is used without checking that it has been set. *)
SlabLockNoCheck(x, next) == CanRun(x) /\ LockSaveIrq(x, next)

(* SLAB_ALLOC.get().expect(..).allocator_for_layout(layout).unwrap()
   .lock_save_irq(): spins until the class lock is free. *)
SlabLock(x, next) ==
    /\ CanRun(x)
    /\ IF ~slabInit
       THEN /\ pc' = [pc EXCEPT ![x] = "panic"]
            /\ UNCHANGED <<tpidr, bundle, slabs, slabInit, lock, fa_used, mask, on,
                           loc, calls, irqs, live, stats, script, sp, ret>>
       ELSE LockSaveIrq(x, next)

AllocLock(x) ==
    /\ pc[x] = "a_lock"
    /\ SlabLock(x, "a_slab")

(* let ptr = slab.alloc(): grows the slab by one page when its free list is
   empty, then pops the head. *)
AllocSlab(x) ==
    /\ pc[x] = "a_slab"
    /\ CanRun(x)
    /\ LET k == loc[x].cls
           page == alloc_frames(fa_used, 0)
           grow == slabs[k].free_list = <<>>
           slab == IF grow THEN SlabGrow(slabs[k], page, k) ELSE slabs[k]
       IN  IF grow /\ page = NULL
           THEN /\ pc' = [pc EXCEPT ![x] = "panic"]
                /\ UNCHANGED <<slabs, fa_used, loc>>
           ELSE /\ fa_used' = IF grow THEN fa_used \cup {page} ELSE fa_used
                /\ loc' = [loc EXCEPT ![x].ptr = SlabTryAllocPtr(slab)]
                /\ slabs' = [slabs EXCEPT ![k] = SlabTryAllocRest(slab)]
                /\ pc' = [pc EXCEPT ![x] = "a_fill"]
    /\ UNCHANGED <<tpidr, bundle, slabInit, lock, mask, on, calls, irqs, live,
                   stats, script, sp, ret>>

(* cache_line.fill_from(&mut slab) *)
AllocFill(x) ==
    /\ pc[x] = "a_fill"
    /\ CanRun(x)
    /\ IF CacheLine(x).next_free <= PTRS_PER_SZ_CLASS
       THEN LET r == fill_from(CacheLine(x), slabs[loc[x].cls])
            IN  /\ bundle' = SetCacheLine(x, r.cache)
                /\ slabs' = [slabs EXCEPT ![loc[x].cls] = r.slab]
                /\ pc' = [pc EXCEPT ![x] = "unlock"]
       ELSE /\ pc' = [pc EXCEPT ![x] = "panic"]   \* index out of bounds
            /\ UNCHANGED <<bundle, slabs>>
    /\ UNCHANGED <<tpidr, slabInit, lock, fa_used, mask, on, loc, calls, irqs,
                   live, stats, script, sp, ret>>

(* The slab guard is dropped first (declared last): unlock, and restore the
   interrupt state the lock saved. *)
SlabUnlock(x) ==
    /\ pc[x] = "unlock"
    /\ CanRun(x)
    /\ lock' = [lock EXCEPT ![loc[x].cls] = None]
    /\ mask' = [mask EXCEPT ![on[x]] = IF loc[x].lflags THEN x ELSE None]
    /\ pc' = [pc EXCEPT ![x] = "drop"]
    /\ UNCHANGED <<tpidr, bundle, slabs, slabInit, fa_used, on, loc, calls, irqs,
                   live, stats, script, sp, ret>>

(***************************************************************************)
(* KHeap::dealloc                                                          *)
(***************************************************************************)
DeallocEnter(x, e) ==
    /\ AtCallSite(x)
    /\ e \in live
    /\ live' = live \ {e}
    /\ GetRead(x, "dealloc", e[2], e[1])
    /\ UNCHANGED <<tpidr, bundle, slabs, slabInit, lock, fa_used, mask, on, irqs,
                   stats, script, sp, ret>>

(* cache.get_cache(layout), then cache_line.free(ptr) up to its store. *)
DeallocCache(x) ==
    /\ pc[x] = "d_cache"
    /\ CanRun(x)
    /\ LET k == alloc_order(loc[x].layout)
       IN  IF k = NoClass
           THEN /\ pc' = [pc EXCEPT ![x] = "d_huge"]
                /\ UNCHANGED <<loc, bundle>>
           ELSE /\ loc' = [loc EXCEPT ![x].cls = k]
                /\ IF is_full(bundle[loc[x].cache][k])
                   THEN /\ pc' = [pc EXCEPT ![x] = "d_lock"]
                        /\ UNCHANGED bundle
                   ELSE IF bundle[loc[x].cache][k].next_free \in Slots
                   THEN /\ pc' = [pc EXCEPT ![x] = "d_inc"]
                        /\ bundle' = [bundle EXCEPT ![loc[x].cache][k] =
                                          PtrCacheFreeStore(@, loc[x].ptr)]
                   ELSE /\ pc' = [pc EXCEPT ![x] = "panic"]   \* index out of bounds
                        /\ UNCHANGED bundle
    /\ UNCHANGED <<tpidr, slabs, slabInit, lock, fa_used, mask, on, calls, irqs,
                   live, stats, script, sp, ret>>

(* cache_line.free(ptr): self.next_free += 1; Ok(()) *)
DeallocInc(x) ==
    /\ pc[x] = "d_inc"
    /\ CanRun(x)
    /\ bundle' = SetCacheLine(x, PtrCacheFreeInc(CacheLine(x)))
    /\ pc' = [pc EXCEPT ![x] = "drop"]
    /\ UNCHANGED <<tpidr, slabs, slabInit, lock, fa_used, mask, on, loc, calls,
                   irqs, live, stats, script, sp, ret>>

DeallocLock(x) ==
    /\ pc[x] = "d_lock"
    /\ SlabLock(x, "d_slab")

(* slab.free(ptr) *)
DeallocSlab(x) ==
    /\ pc[x] = "d_slab"
    /\ CanRun(x)
    /\ slabs' = [slabs EXCEPT ![loc[x].cls] = SlabFree(@, loc[x].ptr)]
    /\ pc' = [pc EXCEPT ![x] = "d_drain"]
    /\ UNCHANGED <<tpidr, bundle, slabInit, lock, fa_used, mask, on, loc, calls,
                   irqs, live, stats, script, sp, ret>>

(* cache_line.drain_into(&mut slab) *)
DeallocDrain(x) ==
    /\ pc[x] = "d_drain"
    /\ CanRun(x)
    /\ IF CacheLine(x).next_free <= PTRS_PER_SZ_CLASS
       THEN LET r == drain_into(CacheLine(x), slabs[loc[x].cls])
            IN  /\ bundle' = SetCacheLine(x, r.cache)
                /\ slabs' = [slabs EXCEPT ![loc[x].cls] = r.slab]
                /\ pc' = [pc EXCEPT ![x] = "unlock"]
       ELSE /\ pc' = [pc EXCEPT ![x] = "panic"]   \* index out of bounds
            /\ UNCHANGED <<bundle, slabs>>
    /\ UNCHANGED <<tpidr, slabInit, lock, fa_used, mask, on, loc, calls, irqs,
                   live, stats, script, sp, ret>>


(* Huge path of alloc: PAGE_ALLOC.get().unwrap().alloc_frames(order).unwrap()
   .leak().start_address().to_va() *)
AllocHuge(x) ==
    /\ pc[x] = "a_huge"
    /\ CanRun(x)
    /\ LET order == calculate_huge_order(loc[x].layout)
           start == alloc_frames(fa_used, order)
       IN  IF start = NULL
           THEN /\ pc' = [pc EXCEPT ![x] = "panic"]
                /\ UNCHANGED <<fa_used, loc>>
           ELSE /\ fa_used' = fa_used \cup BlockFrames(start, order)
                /\ loc' = [loc EXCEPT ![x].ptr = PageVA(start)]
                /\ pc' = [pc EXCEPT ![x] = "drop"]
    /\ UNCHANGED <<tpidr, bundle, slabs, slabInit, lock, mask, on, calls, irqs,
                   live, stats, script, sp, ret>>

(* Variant: the region is one page long, the order is not applied. *)
HugeRegionOnePage(ptr, layout) == {PageOf(ptr)}

(* Huge path of dealloc: the region [to_pa(ptr), PAGE_SIZE << order) is
   claimed with alloc_from_region and the claim dropped, which frees it. *)
HugeRegion(ptr, layout) ==
    LET len == PAGE_SIZE * Pow2(calculate_huge_order(layout))
    IN  PageOf(ptr)..(PageOf(ptr) + (len \div PAGE_SIZE) - 1)

DeallocHuge(x) ==
    /\ pc[x] = "d_huge"
    /\ CanRun(x)
    /\ fa_used' = fa_used \ HugeRegion(loc[x].ptr, loc[x].layout)
    /\ pc' = [pc EXCEPT ![x] = "drop"]
    /\ UNCHANGED <<tpidr, bundle, slabs, slabInit, lock, mask, on, loc, calls,
                   irqs, live, stats, script, sp, ret>>

(***************************************************************************)
(* Interrupts                                                              *)
(***************************************************************************)
(* Exception entry on CPU c: taken only while interrupts are unmasked; the
   hardware masks them until the handler returns. *)
IrqEnter(c) ==
    /\ mask[c] = None
    /\ pc[Handler(c)] = "idle"
    /\ irqs[c] < MaxIrqs
    /\ irqs' = [irqs EXCEPT ![c] = @ + 1]
    /\ mask' = [mask EXCEPT ![c] = Handler(c)]
    /\ UNCHANGED <<tpidr, bundle, slabs, slabInit, lock, fa_used, pc, on, loc,
                   calls, live, stats, script, sp, ret>>

(* Exception return: the interrupted context resumes, interrupts unmasked. *)
IrqExit(c) ==
    /\ mask[c] = Handler(c)
    /\ pc[Handler(c)] = "idle"
    /\ mask' = [mask EXCEPT ![c] = None]
    /\ UNCHANGED <<tpidr, bundle, slabs, slabInit, lock, fa_used, pc, on, loc,
                   calls, irqs, live, stats, script, sp, ret>>

(***************************************************************************)
(* Specification: free-running contexts, each pinned to its CPU            *)
(***************************************************************************)
Layouts == {Layout(64, 64), Layout(2048, 8), Layout(8192, 4096)}

(* Huge layouts: five pages (order 3), the smallest size beyond the largest
   class (order 0), and one made huge by its alignment (order 1). *)
HugeLayouts ==
    {Layout(5 * PAGE_SIZE, PAGE_SIZE), Layout((PAGE_SIZE \div 2) + 1, 8),
     Layout(8, 2 * PAGE_SIZE)}

(* The steps of a size-classed call. *)
SlabStep(x) ==
    \/ GetDisableIrq(x)
    \/ AllocCache(x)
    \/ AllocRead(x)
    \/ AllocLock(x)
    \/ AllocSlab(x)
    \/ AllocFill(x)
    \/ DeallocCache(x)
    \/ DeallocInc(x)
    \/ DeallocLock(x)
    \/ DeallocSlab(x)
    \/ DeallocDrain(x)
    \/ SlabUnlock(x)
    \/ DropCache(x)

(* The steps of any call: the huge path bypasses the magazines. *)
Step(x) ==
    \/ SlabStep(x)
    \/ AllocHuge(x)
    \/ DeallocHuge(x)

InitCommon ==
    /\ slabs = [k \in Classes |-> SlabNew]
    /\ lock = [k \in Classes |-> None]
    /\ mask = [c \in CPUs |-> None]
    /\ pc = [x \in Ctxs |-> "idle"]
    /\ on = [x \in Ctxs |-> HomeCpu(x)]
    /\ loc = [x \in Ctxs |-> NoLoc]
    /\ irqs = [c \in CPUs |-> 0]
    /\ live = {}
    /\ stats = NoStats
    /\ sp = [t \in Tasks |-> [ph |-> 1, done |-> 0]]
    /\ ret = [t \in Tasks |-> <<>>]

(* Before boot: no CPU initialised, SLAB_ALLOC unset, no frame taken by
   the heap. *)
Unbooted ==
    /\ tpidr = [c \in CPUs |-> NULL]
    /\ bundle = <<>>
    /\ slabInit = FALSE
    /\ fa_used = (NumFrames + 1)..MemFrames

(* Frames in use after boot when the heap has the first n frames of the
   machine to itself: the CPUs' bundles, and the frames beyond n, which the
   rest of the kernel holds. *)
BootFrames(n) == {c + 1 : c \in CPUs} \cup ((n + 1)..MemFrames)

(* After boot: SLAB_ALLOC set and init_for_this_cpu run once on each CPU,
   CPU c's bundle in frame c + 1. *)
BootedWith(n) ==
    /\ tpidr = [c \in CPUs |-> c + 1]
    /\ bundle = [p \in {c + 1 : c \in CPUs} |-> SlabCacheNew]
    /\ slabInit = TRUE
    /\ fa_used = BootFrames(n)

Booted == BootedWith(NumFrames)

Init ==
    /\ InitCommon
    /\ Booted
    /\ calls = MaxCalls
    /\ script = [t \in Tasks |-> <<>>]

FreeAlloc(x) ==
    /\ calls > 0
    /\ \E layout \in Layouts : AllocEnter(x, layout)

FreeDealloc(x) ==
    /\ calls > 0
    /\ \E e \in live : DeallocEnter(x, e)

Next ==
    \/ \E x \in Tasks : FreeAlloc(x)
    \/ \E x \in Tasks : FreeDealloc(x)
    \/ \E x \in Tasks : Step(x)

Spec == Init /\ [][Next]_vars

(***************************************************************************)
(* Scripted scenarios: each task makes the calls of its script, in order   *)
(***************************************************************************)
(* A phase is n calls of one kind with one layout; a dealloc phase frees
   the task's first n pointers in allocation order ("fifo") or in reverse
   order ("lifo"). *)
AllocPhase(layout, n) == [op |-> "alloc", layout |-> layout, n |-> n, order |-> "fifo"]

DeallocPhase(layout, n, order) ==
    [op |-> "dealloc", layout |-> layout, n |-> n, order |-> order]

RECURSIVE SumN(_, _)
SumN(sc, k) == IF k = 0 THEN 0 ELSE sc[k].n + SumN(sc, k - 1)

(* Calls a task has completed. *)
Progress(t) == SumN(script[t], sp[t].ph - 1) + sp[t].done

(* The pointer a dealloc phase frees next. *)
NextToFree(t) ==
    IF Phase(t).order = "fifo"
    THEN ret[t][sp[t].done + 1]
    ELSE ret[t][Phase(t).n - sp[t].done]

(* The next call of t's script.  Another task's call is not started while
   this one is in progress, and CPUs take turns at multiples of SwitchEvery
   completed calls. *)
ScriptCall(t) ==
    /\ Recording(t)
    /\ sp[t].ph <= Len(script[t])
    /\ \A u \in Tasks \ {t} : pc[u] = "idle" /\ Progress(u) % SwitchEvery = 0
    /\ IF Phase(t).op = "alloc"
       THEN AllocEnter(t, Phase(t).layout)
       ELSE DeallocEnter(t, <<NextToFree(t), Phase(t).layout>>)

NextScript ==
    \/ \E t \in Tasks : ScriptCall(t)
    \/ \E t \in Tasks : SlabStep(t)

InitScript(sc) ==
    /\ InitCommon
    /\ Booted
    /\ script = sc
    /\ calls = SumN(sc["t0"], Len(sc["t0"])) + SumN(sc["t1"], Len(sc["t1"]))

(* S6: 33 alloc(64,64), then dealloc of all 33 in allocation order. *)
S6Script ==
    [t \in Tasks |->
        IF t = "t0"
        THEN <<AllocPhase(Layout(64, 64), 33),
               DeallocPhase(Layout(64, 64), 33, "fifo")>>
        ELSE <<>>]

SpecS6 == InitScript(S6Script) /\ [][NextScript]_vars

(* S1: 64 alloc(8,8), dealloc of all 64 in allocation order, 64 alloc(8,8). *)
S1Script ==
    [t \in Tasks |->
        IF t = "t0"
        THEN <<AllocPhase(Layout(8, 8), 64),
               DeallocPhase(Layout(8, 8), 64, "fifo"),
               AllocPhase(Layout(8, 8), 64)>>
        ELSE <<>>]

SpecS1 == InitScript(S1Script) /\ [][NextScript]_vars

(* Dealloc-then-alloc runs: w alloc(64,64) bring CPU 0's magazine to some
   count and give the task pointers to free; then n deallocs, then n
   allocs.  65 allocs leave the magazine full, each further one takes one
   pointer off it, so w in 65..97 gives every count from 32 down to 0. *)
LocalScript(w, n) ==
    [t \in Tasks |->
        IF t = "t0"
        THEN <<AllocPhase(Layout(64, 64), w),
               DeallocPhase(Layout(64, 64), n, "fifo"),
               AllocPhase(Layout(64, 64), n)>>
        ELSE <<>>]

SpecLocal ==
    /\ \E w \in 65..97, n \in 1..PTRS_PER_SZ_CLASS : InitScript(LocalScript(w, n))
    /\ [][NextScript]_vars

(* S5: each CPU makes 100 alloc(32,32), then frees its 100 pointers in
   reverse order. *)
S5Script ==
    [t \in Tasks |->
        <<AllocPhase(Layout(32, 32), 100),
          DeallocPhase(Layout(32, 32), 100, "lifo")>>]

SpecS5 == InitScript(S5Script) /\ [][NextScript]_vars

(***************************************************************************)
(* Specification with the scheduler moving tasks between CPUs              *)
(***************************************************************************)
(* A task is preempted where interrupts are unmasked and resumed on CPU c
   (each task is moved away from its first CPU at most once). *)
Migrate(t, c) ==
    /\ on[t] = HomeCpu(t)
    /\ c # on[t]
    /\ pc[t] # "panic"
    /\ mask[on[t]] = None
    /\ on' = [on EXCEPT ![t] = c]
    /\ UNCHANGED <<tpidr, bundle, slabs, slabInit, lock, fa_used, mask, pc, loc,
                   calls, irqs, live, stats, script, sp, ret>>

NextSched ==
    \/ Next
    \/ \E t \in Tasks, c \in CPUs : Migrate(t, c)

SpecSched == Init /\ [][NextSched]_vars

(***************************************************************************)
(* Specification with interrupts: handlers that call the allocator         *)
(***************************************************************************)
(* CPU 0's task and CPU 0's interrupt handler make the calls. *)
NextIrq ==
    \/ IrqEnter(0)
    \/ IrqExit(0)
    \/ \E x \in {"t0", Handler(0)} : FreeAlloc(x)
    \/ \E x \in {"t0", Handler(0)} : FreeDealloc(x)
    \/ \E x \in {"t0", Handler(0)} : Step(x)

SpecIrq == Init /\ [][NextIrq]_vars

(* The same, with the scheduler free to resume the task on CPU 1. *)
NextIrqSched ==
    \/ NextIrq
    \/ Migrate("t0", 1)

SpecIrqSched == Init /\ [][NextIrqSched]_vars

(***************************************************************************)
(* Where objects are                                                       *)
(***************************************************************************)
(* alloc_order tabulated over the layouts that occur: those of the
   free-running callers, of the scenarios, the huge ones, and that of a
   context making no call. *)
ClassOf ==
    [l \in Layouts \cup {Layout(8, 8), Layout(32, 32), Layout(64, 64)}
              \cup HugeLayouts \cup {Layout(0, 0)} |-> alloc_order(l)]

(* Two allocations do not overlap.  An allocation of `layout` owns the
   class's object size, or the whole block of frames on the huge path. *)
Disjoint(p1, l1, p2, l2) ==
    LET Extent(layout) ==
            IF ClassOf[layout] = NoClass
            THEN PAGE_SIZE * Pow2(calculate_huge_order(layout))
            ELSE ObjSize(ClassOf[layout])
    IN  p1 + Extent(l1) <= p2 \/ p2 + Extent(l2) <= p1

(* Every object carved from a slab page of class k. *)
SeqSet(q) == {q[i] : i \in 1..Len(q)}

Carved ==
    UNION {{PageVA(p) + (j - 1) * ObjSize(k) :
               p \in SeqSet(slabs[k].pages), j \in 1..(PAGE_SIZE \div ObjSize(k))} :
           k \in Classes}

(* The object a call in progress holds in its locals: handed in by the
   caller of dealloc and not yet stored, or taken by alloc and not yet
   returned. *)
InFlight(x) ==
    IF loc[x].op = "dealloc"
         /\ pc[x] \in {"get_irq", "d_cache", "d_inc", "d_lock", "d_slab", "d_huge",
                       "panic"}
    THEN loc[x].ptr
    ELSE IF loc[x].op = "alloc" /\ pc[x] \in {"a_fill", "unlock", "drop"}
    THEN loc[x].ptr
    ELSE IF pc[x] = "a_read" THEN PtrCacheAllocRead(CacheLine(x))
    ELSE NULL

RECURSIVE SumOver(_, _)
SumOver(S, f) ==
    IF S = {} THEN 0
    ELSE LET b == CHOOSE b \in S : TRUE IN f[b] + SumOver(S \ {b}, f)

Quiescent == \A x \in Ctxs : pc[x] = "idle"

(***************************************************************************)
(* C1: no pointer is returned by alloc while it is still live: the pointer *)
(* an alloc is about to return differs from, and does not overlap, every   *)
(* live allocation and every pointer another alloc is about to return, and *)
(* no two live allocations overlap.                                        *)
(***************************************************************************)
Returning(x) == pc[x] = "drop" /\ loc[x].op = "alloc"

C1_LiveDisjoint ==
    /\ \A e1 \in live : \A e2 \in live :
           e1 # e2 => Disjoint(e1[1], e1[2], e2[1], e2[2])
    /\ \A x \in Ctxs : Returning(x) =>
           /\ loc[x].ptr # NULL
           /\ \A e \in live : Disjoint(loc[x].ptr, loc[x].layout, e[1], e[2])
           /\ \A y \in Ctxs \ {x} : Returning(y) =>
                  Disjoint(loc[x].ptr, loc[x].layout, loc[y].ptr, loc[y].layout)

(***************************************************************************)
(* C2: every object carved from a slab page is in exactly one place: one   *)
(* slot of one magazine of its class, one position of its class's free     *)
(* list, one live caller, or the locals of one call in progress.           *)
(***************************************************************************)
(* Only objects of class k are placed, no two places hold the same object,
   and there are as many places as carved objects: so each carved object is
   in exactly one place.  The places are magazine slots below the count,
   free-list positions, live callers and calls in progress. *)
C2_ExactlyOnePlace ==
    \A k \in Classes :
        LET LiveOf == {e \in live : ClassOf[e[2]] = k}
            CallsOf == {x \in Ctxs : InFlight(x) # NULL /\ ClassOf[loc[x].layout] = k}
            MagazinesOf == UNION {MagSet(bundle[b][k]) : b \in DOMAIN bundle}
            places ==
                SumOver(DOMAIN bundle, [b \in DOMAIN bundle |-> bundle[b][k].next_free])
                    + Len(slabs[k].free_list) + Cardinality(LiveOf)
                    + Cardinality(CallsOf)
            placed ==
                MagazinesOf \cup SeqSet(slabs[k].free_list)
                    \cup {e[1] : e \in LiveOf} \cup {InFlight(x) : x \in CallsOf}
            pages == SeqSet(slabs[k].pages)
            size == ObjSize(k)
        IN  /\ \A o \in placed : PageOf(o) \in pages /\ o % size = 0
            /\ places = Cardinality(placed)
            /\ places = Len(slabs[k].pages) * (PAGE_SIZE \div size)

(***************************************************************************)
(* C3: at every quiescent point, completed allocs minus completed deallocs *)
(* is the number of allocations held by callers, and the slab objects that *)
(* are in no magazine and on no free list are exactly the ones held.       *)
(***************************************************************************)
C3_Conservation ==
    LET InMagazines ==
            UNION {MagSet(bundle[b][k]) : b \in DOMAIN bundle, k \in Classes}
        InFreeLists == UNION {SeqSet(slabs[k].free_list) : k \in Classes}
    IN  Quiescent =>
        /\ stats.alloc - stats.dealloc = Cardinality(live)
        /\ Carved \ (InMagazines \cup InFreeLists) =
               {e[1] : e \in {l \in live : ClassOf[l[2]] # NoClass}}

(***************************************************************************)
(* C4: every read or mutation of a magazine bundle is executed by the CPU  *)
(* whose TPIDR_EL1 holds that bundle, with that CPU's interrupts masked by *)
(* the accessing context.                                                  *)
(***************************************************************************)
(* Positions whose next statement dereferences the PerCpuCache. *)
AccessPcs == {"a_cache", "a_read", "a_fill", "d_cache", "d_inc", "d_drain"}

C4_BundleCpuPrivate ==
    \A x \in Ctxs : pc[x] \in AccessPcs =>
        /\ loc[x].cache = tpidr[on[x]]
        /\ mask[on[x]] = x

(***************************************************************************)
(* C5: a pointer an interrupt handler's alloc returns is distinct from     *)
(* every live pointer and from every pointer another call is returning; a  *)
(* pointer a task's call returns is distinct from every live pointer, the  *)
(* ones a handler obtained during that call and still holds among them;    *)
(* and while a handler is working on a magazine no other context is        *)
(* between the two halves of an update of that magazine.                   *)
(***************************************************************************)
C5_HandlerSafe ==
    /\ \A h \in Handlers : Returning(h) =>
           /\ loc[h].ptr # NULL
           /\ \A e \in live : Disjoint(loc[h].ptr, loc[h].layout, e[1], e[2])
           /\ \A y \in Ctxs \ {h} : Returning(y) =>
                  Disjoint(loc[h].ptr, loc[h].layout, loc[y].ptr, loc[y].layout)
    /\ \A t \in Tasks : Returning(t) =>
           \A e \in live : Disjoint(loc[t].ptr, loc[t].layout, e[1], e[2])
    /\ \A h \in Handlers : pc[h] \in AccessPcs =>
           \A y \in Ctxs \ {h} :
               ~(/\ pc[y] \in {"a_read", "d_inc"}
                 /\ loc[y].cache = loc[h].cache
                 /\ loc[y].cls = ClassOf[loc[h].layout])

(***************************************************************************)
(* C6: every magazine's count stays within 0..M, and right after a dealloc *)
(* that found its magazine full has drained it the count lies between      *)
(* M/2 - 1 and M/2 + 1.                                                    *)
(***************************************************************************)
C6_MagazineBound ==
    /\ \A b \in DOMAIN bundle : \A k \in Classes :
           bundle[b][k].next_free \in 0..PTRS_PER_SZ_CLASS
    /\ \A x \in Ctxs : loc[x].op = "dealloc" /\ pc[x] = "unlock" =>
           /\ CacheLine(x).next_free >= (PTRS_PER_SZ_CLASS \div 2) - 1
           /\ CacheLine(x).next_free <= (PTRS_PER_SZ_CLASS \div 2) + 1

(***************************************************************************)
(* C7 as stated: for N <= M, none of the N allocs that follow N deallocs   *)
(* of the same class on the same CPU acquires a slab lock.                 *)
(***************************************************************************)
C7_NoLockUpToM == stats.phlocks["t0"][3] = 0

(***************************************************************************)
(* C7, amended: for N <= M/2, none of the N allocs that follow N deallocs  *)
(* of the same class on the same CPU acquires a slab lock, whatever the    *)
(* magazine's count was before the deallocs.                               *)
(***************************************************************************)
(* The deallocs start from count 97 - w: every count in 0..M occurs. *)
C7_NoLockUpToHalf ==
    /\ sp["t0"].ph = 2 /\ sp["t0"].done = 0 /\ pc["t0"] = "idle" =>
           bundle[tpidr[0]][ClassOf[Layout(64, 64)]].next_free
               = 97 - script["t0"][1].n
    /\ script["t0"][3].n <= PTRS_PER_SZ_CLASS \div 2 => stats.phlocks["t0"][3] = 0

(* A run with N = M/2 has ended, one of its deallocs having overflowed. *)
C7_Witness ==
    /\ script["t0"][3].n = PTRS_PER_SZ_CLASS \div 2
    /\ sp["t0"].ph = 4
    /\ stats.phlocks["t0"][2] = 1

S1Lifo(i) == ret["t0"][64 + i] = ret["t0"][65 - i]

S1Second == Len(ret["t0"]) - 64

C9_Lifo32 ==
    \A i \in 1..PTRS_PER_SZ_CLASS : i <= S1Second => S1Lifo(i)

(***************************************************************************)
(* C9, amended: the 64 pointers of the first round are distinct, and the   *)
(* first 16 pointers of the second round are the 16 most recently freed    *)
(* pointers, most recently freed first; the 17th is not the 17th most      *)
(* recently freed: the two overflowing deallocs each drained the 16 newest *)
(* pointers of the magazine to the slab.                                   *)
(***************************************************************************)
C9_Lifo16 ==
    /\ \A i, j \in 1..Len(ret["t0"]) : i <= 64 /\ j <= 64 /\ i # j => ret["t0"][i] # ret["t0"][j]
    /\ \A i \in 1..(PTRS_PER_SZ_CLASS \div 2) : i <= S1Second => S1Lifo(i)
    /\ S1Second > PTRS_PER_SZ_CLASS \div 2 => ~S1Lifo((PTRS_PER_SZ_CLASS \div 2) + 1)
    /\ sp["t0"].ph = 3 => stats.phlocks["t0"][2] = 2

(* The second round has returned more than 32 pointers. *)
C9_Witness == S1Second > PTRS_PER_SZ_CLASS /\ pc["t0"] = "idle"

(***************************************************************************)
(* C10: in scenario S6 the first 32 deallocs push onto the magazine and    *)
(* take no lock; the 33rd finds the magazine full, puts its pointer on the *)
(* slab free list and not in the magazine, then moves the 16 pointers on   *)
(* top of the magazine to the free list; the magazine count ends at 16.    *)
(***************************************************************************)
(* CPU 0's magazine of the scenario's class, and the pointers t0 got. *)
S6Mag == bundle[tpidr[0]][ClassOf[Layout(64, 64)]]

C10_S6Overflow ==
    LET done == sp["t0"].done
        half == PTRS_PER_SZ_CLASS \div 2
        S6Ret(i, j) == SubSeq(ret["t0"], i, j)
        SlowPcs == {"d_lock", "d_slab", "d_drain", "unlock"}
        MagSeq(c) == [i \in 1..c.next_free |-> c.ptrs[i - 1]]
    IN  /\ sp["t0"].ph = 2 /\ done < PTRS_PER_SZ_CLASS =>
               /\ pc["t0"] \notin SlowPcs
               /\ stats.phlocks["t0"][2] = 0
               /\ pc["t0"] = "idle" => MagSeq(S6Mag) = S6Ret(1, done)
        /\ sp["t0"].ph = 2 /\ done = PTRS_PER_SZ_CLASS =>
               /\ pc["t0"] # "d_inc"
               /\ pc["t0"] = "d_lock" => is_full(S6Mag)
               /\ pc["t0"] = "d_drain" =>
                      /\ Head(slabs[loc["t0"].cls].free_list) = ret["t0"][33]
                      /\ MagSeq(S6Mag) = S6Ret(1, PTRS_PER_SZ_CLASS)
               /\ pc["t0"] \in {"unlock", "drop"} =>
                      /\ MagSeq(S6Mag) = S6Ret(1, half)
                      /\ SubSeq(slabs[loc["t0"].cls].free_list, 1, half + 1)
                             = S6Ret(half + 1, 33)
        /\ sp["t0"].ph = 3 =>
               /\ S6Mag.next_free = half
               /\ stats.phlocks["t0"][2] = 1

(* The scenario has run to its end. *)
C10_Witness == sp["t0"].ph = 3 /\ pc["t0"] = "idle" /\ stats.dealloc = 33

(***************************************************************************)
(* Scenario S3: slab growth                                                *)
(***************************************************************************)
(* Objects of one slab page of the scenario's class. *)
S3PerPage == PAGE_SIZE \div 64

(* S3: alloc(64,64) until PAGE_SIZE / 64 + 1 allocations have happened. *)
S3Script ==
    [t \in Tasks |->
        IF t = "t0" THEN <<AllocPhase(Layout(64, 64), S3PerPage + 1)>> ELSE <<>>]

(* The steps of a size-classed alloc: the scenario frees nothing. *)
AllocStep(x) ==
    \/ GetDisableIrq(x)
    \/ AllocCache(x)
    \/ AllocRead(x)
    \/ AllocLock(x)
    \/ AllocSlab(x)
    \/ AllocFill(x)
    \/ SlabUnlock(x)
    \/ DropCache(x)

NextS3 ==
    \/ \E t \in Tasks : ScriptCall(t)
    \/ \E t \in Tasks : AllocStep(t)

SpecS3 == InitScript(S3Script) /\ [][NextS3]_vars

S3Slab == slabs[ClassOf[Layout(64, 64)]]

(***************************************************************************)
(* C11: in scenario S3 the class has no slab page before the first alloc,  *)
(* exactly one from the first alloc's slab.alloc() until the 65th alloc's  *)
(* slab.alloc(), and exactly two after it; the frames taken from the frame *)
(* allocator since boot are these pages and no others; a magazine refill   *)
(* leaves the page list as it was and stops either with the magazine full  *)
(* or with the free list empty.                                            *)
(***************************************************************************)
C11_S3Growth ==
    LET done == stats.alloc
        grown == pc["t0"] \in {"a_fill", "unlock", "drop"}
        n == Len(S3Slab.pages)
    IN  /\ n = IF done = 0 THEN (IF grown THEN 1 ELSE 0)
               ELSE IF done < S3PerPage THEN 1
               ELSE IF done = S3PerPage THEN (IF grown THEN 2 ELSE 1)
               ELSE 2
        /\ fa_used = BootFrames(NumFrames) \cup SeqSet(S3Slab.pages)
        /\ pc["t0"] = "unlock" =>
               \/ is_full(S6Mag)
               \/ S3Slab.free_list = <<>> /\ done < S3PerPage

(* The scenario has run to its end: 65 allocations, two pages. *)
C11_Witness ==
    /\ stats.alloc = S3PerPage + 1
    /\ pc["t0"] = "idle"
    /\ Len(S3Slab.pages) = 2

(***************************************************************************)
(* Specification: huge and size-classed calls on the whole machine         *)
(***************************************************************************)
HugeAlloc(x) ==
    /\ calls > 0
    /\ \E layout \in HugeLayouts \cup {Layout(64, 64)} : AllocEnter(x, layout)

NextHuge ==
    \/ \E x \in Tasks : HugeAlloc(x)
    \/ \E x \in Tasks : FreeDealloc(x)
    \/ \E x \in Tasks : Step(x)

InitHuge ==
    /\ InitCommon
    /\ BootedWith(MemFrames)
    /\ calls = MaxCalls
    /\ script = [t \in Tasks |-> <<>>]

SpecHuge == InitHuge /\ [][NextHuge]_vars

IsHuge(layout) == ClassOf[layout] = NoClass

AllSlabPages == UNION {SeqSet(slabs[k].pages) : k \in Classes}

(***************************************************************************)
(* C12: the frames in use are, at every moment, the frames in use at boot, *)
(* the slab pages, and the blocks of the huge allocations that are held,   *)
(* each block PAGE_SIZE << order long from the pointer's page, the blocks  *)
(* disjoint from each other and from the rest: so a dealloc hands back     *)
(* exactly the range its alloc took and the pair leaves the free set as it *)
(* was.  Five pages take a block of 8 frames.                              *)
(***************************************************************************)
(* HugeLive: huge allocations held by callers.  HugeCalls: calls that hold
   a huge block, an alloc that has taken it and not yet returned or a
   dealloc that has not yet handed it back.  HugeTaken: the frames alloc
   took for a huge pointer, 2^order frames from its page. *)
C12_HugeRoundTrip ==
    LET HugeLive == {e \in live : IsHuge(e[2])}
        HugeCalls ==
            {x \in Ctxs :
                /\ IsHuge(loc[x].layout)
                /\ \/ loc[x].op = "alloc" /\ pc[x] = "drop"
                   \/ loc[x].op = "dealloc"
                          /\ pc[x] \in {"get_irq", "d_cache", "d_huge"}}
        HugeTaken(ptr, layout) ==
            LET pages == DivCeil(Max(layout.size, layout.align), PAGE_SIZE)
            IN  BlockFrames(PageOf(ptr), CeilLog2(pages))
        HugeBlocks ==
            {HugeTaken(e[1], e[2]) : e \in HugeLive}
                \cup {HugeTaken(loc[x].ptr, loc[x].layout) : x \in HugeCalls}
    IN  /\ fa_used = BootFrames(MemFrames) \cup AllSlabPages \cup UNION HugeBlocks
        /\ Cardinality(HugeBlocks) = Cardinality(HugeLive) + Cardinality(HugeCalls)
        /\ \A b1 \in HugeBlocks :
               /\ b1 \cap (BootFrames(MemFrames) \cup AllSlabPages) = {}
               /\ \A b2 \in HugeBlocks : b1 # b2 => b1 \cap b2 = {}
        /\ \A e \in HugeLive :
               /\ e[1] = PageVA(PageOf(e[1]))
               /\ e[2] = Layout(5 * PAGE_SIZE, PAGE_SIZE) =>
                      Cardinality(HugeTaken(e[1], e[2])) = 8
        /\ Quiescent /\ HugeLive = {} =>
               fa_used = BootFrames(MemFrames) \cup AllSlabPages

(* One huge alloc and its dealloc have completed (no slab page exists, so
   the pair was huge), and the frames in use are those in use at boot. *)
C12_Witness ==
    /\ Quiescent
    /\ stats.alloc = 1
    /\ stats.dealloc = 1
    /\ AllSlabPages = {}
    /\ fa_used = BootFrames(MemFrames)

(***************************************************************************)
(* C13: a huge alloc that the frame allocator cannot satisfy does not      *)
(* panic: it returns the null pointer, with the interrupt state restored.  *)
(***************************************************************************)
C13_HugeFailNull ==
    \A x \in Ctxs :
        loc[x].op = "alloc" /\ IsHuge(loc[x].layout) /\ loc[x].cache # NULL =>
            pc[x] # "panic"

(***************************************************************************)
(* Specification: calls made while the kernel boots                        *)
(***************************************************************************)
(* SLAB_ALLOC is set and each CPU runs init_for_this_cpu at some point;
   nothing orders the calls of the tasks after them. *)
NextBoot ==
    \/ InitSlab
    \/ \E c \in CPUs : InitCpu(c)
    \/ Next

InitBoot ==
    /\ InitCommon
    /\ Unbooted
    /\ calls = MaxCalls
    /\ script = [t \in Tasks |-> <<>>]

SpecBoot == InitBoot /\ [][NextBoot]_vars

(***************************************************************************)
(* C14: a size-classed alloc or dealloc started on a CPU whose TPIDR_EL1   *)
(* is null panics at once; the step changes no magazine, no slab, no       *)
(* frame-allocator state, no lock and no CPU's interrupt state.            *)
(***************************************************************************)
C14_UninitPanics ==
    [][\A x \in Ctxs :
           (pc[x] = "idle" /\ pc'[x] # "idle"
                /\ tpidr[on[x]] = NULL /\ ~IsHuge(loc'[x].layout)) =>
               /\ pc'[x] = "panic"
               /\ UNCHANGED <<tpidr, bundle, slabs, lock, fa_used, mask>>]_vars

(* A dealloc of a size-classed pointer has panicked on a CPU that is not
   initialised, while the other CPU's bundle holds pointers. *)
C14_Witness ==
    \E x \in Tasks :
        /\ pc[x] = "panic"
        /\ loc[x].op = "dealloc"
        /\ loc[x].cache = NULL
        /\ tpidr[on[x]] = NULL
        /\ ~IsHuge(loc[x].layout)
        /\ \E b \in DOMAIN bundle : \E k \in Classes : ~is_empty(bundle[b][k])

(***************************************************************************)
(* C15: no call gets past the acquisition of the slab set while SLAB_ALLOC *)
(* is unset: an alloc whose magazine is empty and a dealloc whose magazine *)
(* is full panic there, holding no lock, returning no pointer and leaving  *)
(* magazines and slabs as they were.                                       *)
(***************************************************************************)
InSlabPcs == {"a_slab", "a_fill", "d_slab", "d_drain", "unlock"}

C15_SlabUninitPanics ==
    /\ [](\A x \in Ctxs : pc[x] \in InSlabPcs => slabInit)
    /\ [](\A k \in Classes : lock[k] # None => slabInit)
    /\ [][\A x \in Ctxs :
             pc[x] \in {"a_lock", "d_lock"} /\ ~slabInit /\ pc'[x] # pc[x] =>
                 /\ pc'[x] = "panic"
                 /\ loc'[x] = loc[x]
                 /\ UNCHANGED <<bundle, slabs, lock, live, stats>>]_vars

(* An alloc found its magazine empty on an initialised CPU and panicked, the
   slab set not being initialised. *)
C15_Witness ==
    \E x \in Tasks :
        /\ pc[x] = "panic"
        /\ loc[x].op = "alloc"
        /\ loc[x].cache # NULL
        /\ loc[x].cls # NoClass
        /\ ~slabInit

(***************************************************************************)
(* C16: a huge call is classified before the per-CPU bundle is acquired:   *)
(* it is never inside PerCpuCache::get, never disables interrupts, and     *)
(* never panics in get's null check, whether or not its CPU is             *)
(* initialised.                                                            *)
(***************************************************************************)
C16_HugeBypass ==
    \A x \in Tasks :
        loc[x].op # None /\ IsHuge(loc[x].layout) =>
            /\ pc[x] \notin {"get_irq", "a_cache", "d_cache"}
            /\ mask[on[x]] # x
            /\ ~(pc[x] = "panic" /\ loc[x].cache = NULL)

(***************************************************************************)
(* C17: while a context holds a class's slab lock, interrupts are masked   *)
(* by that context on the CPU it runs on; and a step that unmasks a        *)
(* context's interrupts is taken only when it holds no slab lock: the lock *)
(* is released before the interrupt state is restored.                     *)
(***************************************************************************)
Holds(x) == \E k \in Classes : lock[k] = x

C17_LockIrqOff ==
    /\ [](\A x \in Ctxs : Holds(x) => mask[on[x]] = x)
    /\ [][\A x \in Ctxs :
             mask[on[x]] = x /\ mask'[on[x]] # x => ~Holds(x) /\ pc[x] \notin InSlabPcs]_vars

(* A task that took a slab lock inside an alloc has released it and is about
   to restore the interrupt state, still masked. *)
C17_Witness ==
    \E x \in Tasks :
        /\ pc[x] = "drop"
        /\ loc[x].lflags
        /\ stats.locks[x] > 0
        /\ ~Holds(x)
        /\ mask[on[x]] = x

(***************************************************************************)
(* Specification: tasks of both CPUs and an interrupt handler, fairly      *)
(* scheduled                                                               *)
(***************************************************************************)
(* The tasks of both CPUs and CPU 0's interrupt handler make the calls. *)
LiveCtxs == Tasks \cup {Handler(0)}

(* Calls of one class, so that every slow path contends for one lock. *)
LiveAlloc(x) ==
    /\ calls > 0
    /\ AllocEnter(x, Layout(64, 64))

NextLive ==
    \/ IrqEnter(0)
    \/ IrqExit(0)
    \/ Migrate("t0", 1)
    \/ \E x \in LiveCtxs : LiveAlloc(x)
    \/ \E x \in LiveCtxs : FreeDealloc(x)
    \/ \E x \in LiveCtxs : SlabStep(x)

(* Every context that can take a step of its call eventually takes it, and
   a handler that can return eventually returns. *)
Fairness ==
    /\ \A x \in LiveCtxs : WF_vars(SlabStep(x))
    /\ WF_vars(IrqExit(0))

InitLive ==
    /\ InitCommon
    /\ Booted
    /\ calls = LiveCalls
    /\ script = [t \in Tasks |-> <<>>]

SpecLive == InitLive /\ [][NextLive]_vars /\ Fairness

AnyPanic == \E y \in Ctxs : pc[y] = "panic"

(***************************************************************************)
(* C18: every call in progress eventually returns, unless the kernel       *)
(* panics: no context waits forever for a slab lock or for its CPU.        *)
(***************************************************************************)
C18_Terminates ==
    \A x \in LiveCtxs : (pc[x] # "idle") ~> (pc[x] = "idle" \/ AnyPanic)

(* The handler spins on the slab lock while a task on the other CPU holds
   it. *)
C18_Witness ==
    \E t \in Tasks :
        /\ pc[Handler(0)] \in {"a_lock", "d_lock"}
        /\ lock[ClassOf[Layout(64, 64)]] = t
        /\ on[t] # on[Handler(0)]
        /\ ~AnyPanic

(***************************************************************************)
(* C19: the object of every class-k allocation, live or being returned,    *)
(* lies whole inside one slab page of class k, and no slab page belongs to *)
(* two classes (so allocations of different classes are in different       *)
(* pages).                                                                 *)
(***************************************************************************)
C19_ClassBounded ==
    LET InClassPage(p, k) ==
            /\ PageOf(p) \in SeqSet(slabs[k].pages)
            /\ PageOf(p + ObjSize(k) - 1) = PageOf(p)
    IN  /\ \A k1 \in Classes : \A k2 \in Classes :
               k1 # k2 => SeqSet(slabs[k1].pages) \cap SeqSet(slabs[k2].pages) = {}
        /\ \A e \in live : ~IsHuge(e[2]) => InClassPage(e[1], ClassOf[e[2]])
        /\ \A x \in Ctxs :
               Returning(x) /\ ~IsHuge(loc[x].layout) =>
                   InClassPage(loc[x].ptr, ClassOf[loc[x].layout])

(***************************************************************************)
(* Specification: one layout, allocated and freed again                    *)
(***************************************************************************)
(* Sizes around the class boundaries, around the largest class and around *)
(* whole numbers of pages, with alignments below, at and above them. *)
ClassifyLayouts ==
    {Layout(s, a) :
        s \in {0, 1, 7, 8, 9, 16, 17, 33, 64, 65, 1024, 2047, 2048, 2049,
               PAGE_SIZE, PAGE_SIZE + 1, 2 * PAGE_SIZE, 2 * PAGE_SIZE + 1,
               3 * PAGE_SIZE, 4 * PAGE_SIZE, 4 * PAGE_SIZE + 1, 8 * PAGE_SIZE},
        a \in {1, 8, 64, 2048, PAGE_SIZE, 2 * PAGE_SIZE, 8 * PAGE_SIZE}}

(* Bytes the request needs: max(size, align), at least one. *)
Need(layout) == Max(Max(layout.size, layout.align), 1)

(* Small objects are allocated often enough to overflow the magazine when
   they are freed; larger ones once. *)
ClassifyCount(layout) == IF Need(layout) <= 64 THEN PTRS_PER_SZ_CLASS + 1 ELSE 1

ClassifyScript(layout) ==
    [t \in Tasks |->
        IF t = "t0"
        THEN <<AllocPhase(layout, ClassifyCount(layout)),
               DeallocPhase(layout, ClassifyCount(layout), "fifo")>>
        ELSE <<>>]

NextClassify ==
    \/ \E t \in Tasks : ScriptCall(t)
    \/ \E t \in Tasks : Step(t)

SpecClassify ==
    /\ \E layout \in ClassifyLayouts :
           /\ InitCommon
           /\ BootedWith(MemFrames)
           /\ script = ClassifyScript(layout)
           /\ calls = 2 * ClassifyCount(layout)
    /\ [][NextClassify]_vars

(***************************************************************************)
(* C20: a layout is given a class exactly when max(size, align) is at most *)
(* the largest class's object size, the class is then the least one whose  *)
(* objects hold max(size, align), and otherwise the call takes the huge    *)
(* path; alloc and dealloc of the layout use the magazine of that one      *)
(* class and no other.                                                     *)
(***************************************************************************)
C20_Classification ==
    LET n == Need(script["t0"][1].layout)
        PreClassPcs == {"idle", "get_irq", "a_cache", "d_cache"}
        HugePcs == {"a_huge", "d_huge"}
        fits == n <= ObjSize(SLAB_MAX_OBJ_SHIFT)
    IN  /\ \A x \in Tasks :
               pc[x] \notin PreClassPcs =>
                   IF fits
                   THEN /\ loc[x].cls \in Classes
                        /\ ObjSize(loc[x].cls) >= n
                        /\ loc[x].cls > 0 => ObjSize(loc[x].cls - 1) < n
                        /\ pc[x] \notin HugePcs
                   ELSE loc[x].cls = NoClass
        /\ \A j \in Classes :
               (~fits \/ ObjSize(j) < n \/ (j > 0 /\ ObjSize(j - 1) >= n)) =>
                   /\ slabs[j] = SlabNew
                   /\ \A c \in CPUs : bundle[tpidr[c]][j] = PtrCacheNew

(* A dealloc of a layout whose alignment exceeds its size has been
   classified, after the alloc of the same layout returned. *)
C20_Witness ==
    /\ script["t0"][1].layout = Layout(9, 64)
    /\ pc["t0"] = "d_inc"
    /\ loc["t0"].cls = 3
    /\ Len(ret["t0"]) = PTRS_PER_SZ_CLASS + 1

(***************************************************************************)
(* C21: the fast paths take no lock and leave the slabs untouched.  An     *)
(* alloc that finds its magazine non-empty decrements the count by one and *)
(* returns the pointer that was on top; a dealloc that finds its magazine  *)
(* not full stores the pointer on top and increments the count by one; no  *)
(* other step changes the magazine in between, and the call holds no slab  *)
(* lock.                                                                   *)
(***************************************************************************)
C21_FastPath ==
    [][\A x \in Ctxs :
           LET mag == bundle[loc[x].cache][loc'[x].cls]
               mag1 == bundle'[loc[x].cache][loc'[x].cls]
           IN  /\ pc[x] = "a_cache" /\ pc'[x] = "a_read" =>
                      /\ mag1 = [mag EXCEPT !.next_free = @ - 1]
                      /\ UNCHANGED <<slabs, lock>>
               /\ pc[x] = "d_cache" /\ pc'[x] = "d_inc" =>
                      /\ mag1 = [mag EXCEPT !.ptrs[mag.next_free] = loc[x].ptr]
                      /\ UNCHANGED <<slabs, lock>>
               /\ pc[x] \in {"a_read", "d_inc"} =>
                      /\ \A k \in Classes : lock[k] # x
                      /\ pc'[x] = pc[x] => mag1 = mag
                      /\ pc'[x] # pc[x] =>
                             /\ pc'[x] = "drop"
                             /\ UNCHANGED <<slabs, lock>>
               /\ pc[x] = "a_read" /\ pc'[x] # pc[x] =>
                      /\ loc'[x].ptr = mag.ptrs[mag.next_free]
                      /\ mag1 = mag
               /\ pc[x] = "d_inc" /\ pc'[x] # pc[x] =>
                      mag1 = [mag EXCEPT !.next_free = @ + 1]]_vars

(***************************************************************************)
(* C22: a slow-path alloc takes its class's lock once, where it found the  *)
(* magazine empty, and holds it until the refill is done; the pointer it   *)
(* returns comes from slab.alloc(), before the refill, and is neither in   *)
(* the magazine nor on the free list afterwards; the refill takes the      *)
(* pointers it pushes off the head of the free list and stops with the     *)
(* magazine full or the free list empty, which is how the call returns.    *)
(***************************************************************************)
C22_SlowAlloc ==
    /\ [](\A x \in Ctxs :
             loc[x].op = "alloc" =>
                 /\ pc[x] \in {"a_slab", "a_fill", "unlock"} =>
                        lock[loc[x].cls] = x
                 /\ pc[x] = "a_slab" => is_empty(CacheLine(x))
                 /\ pc[x] = "a_fill" =>
                        /\ is_empty(CacheLine(x))
                        /\ loc[x].ptr # NULL
                        /\ loc[x].ptr \notin SeqSet(slabs[loc[x].cls].free_list)
                 /\ pc[x] \in {"unlock", "drop"} /\ loc[x].lflags =>
                        /\ loc[x].ptr \notin MagSet(CacheLine(x))
                        /\ \/ is_full(CacheLine(x))
                           \/ slabs[loc[x].cls].free_list = <<>>
                           \/ pc[x] = "drop")
    /\ [][\A x \in Ctxs :
             /\ \A k \in Classes :
                    lock[k] # x /\ lock'[k] = x /\ loc[x].op = "alloc" =>
                        /\ pc[x] = "a_lock" /\ pc'[x] = "a_slab"
                        /\ k = loc[x].cls
                        /\ stats'.locks[x] = stats.locks[x] + 1
             /\ pc[x] = "a_fill" /\ pc'[x] # pc[x] =>
                    LET k == loc[x].cls
                        n == CacheLine(x)'.next_free
                    IN  /\ pc'[x] = "unlock"
                        /\ n = (IF Len(slabs[k].free_list) < PTRS_PER_SZ_CLASS
                                 THEN Len(slabs[k].free_list) ELSE PTRS_PER_SZ_CLASS)
                        /\ \A i \in 1..n :
                               CacheLine(x)'.ptrs[i - 1] = slabs[k].free_list[i]
                        /\ slabs'[k].free_list
                               = SubSeq(slabs[k].free_list, n + 1,
                                        Len(slabs[k].free_list))
                        /\ slabs'[k].pages = slabs[k].pages
                        /\ loc'[x].ptr = loc[x].ptr
             /\ pc[x] = "unlock" /\ pc'[x] = "drop" /\ loc[x].op = "alloc" =>
                    /\ is_full(CacheLine(x)) \/ slabs[loc[x].cls].free_list = <<>>
                    /\ stats'.locks[x] = stats.locks[x]]_vars

(***************************************************************************)
(* Specification: PtrCache operations applied to one magazine              *)
(***************************************************************************)
(* The i-th object of the class-3 slab page in frame 3. *)
UnitObj(i) == PageVA(3) + (i - 1) * 64

(* CPU 0's class-3 magazine holds the first n objects of the page, the
   caller holds the next three, the slab's free list the last two. *)
InitUnit ==
    \E n \in 0..PTRS_PER_SZ_CLASS :
        /\ tpidr = [c \in CPUs |-> c + 1]
        /\ bundle = [p \in {c + 1 : c \in CPUs} |->
                        IF p = 1
                        THEN [SlabCacheNew EXCEPT ![3] =
                                 [next_free |-> n,
                                  ptrs |-> [i \in Slots |->
                                               IF i < n THEN UnitObj(i + 1)
                                               ELSE NULL]]]
                        ELSE SlabCacheNew]
        /\ slabs = [k \in Classes |->
                       IF k = 3
                       THEN [free_list |-> <<UnitObj(64), UnitObj(63)>>,
                             pages |-> <<3>>]
                       ELSE SlabNew]
        /\ slabInit = TRUE
        /\ lock = [k \in Classes |-> None]
        /\ fa_used = BootFrames(NumFrames) \cup {3}
        /\ mask = [c \in CPUs |-> None]
        /\ pc = [x \in Ctxs |-> "idle"]
        /\ on = [x \in Ctxs |-> HomeCpu(x)]
        /\ loc = [x \in Ctxs |-> NoLoc]
        /\ calls = MaxCalls
        /\ irqs = [c \in CPUs |-> 0]
        /\ live = {<<UnitObj(i), Layout(64, 64)>> : i \in 33..35}
        /\ stats = NoStats
        /\ script = [t \in Tasks |-> <<>>]
        /\ sp = [t \in Tasks |-> [ph |-> 1, done |-> 0]]
        /\ ret = [t \in Tasks |-> <<>>]

(* One operation is applied to the magazine; loc["t0"] records which, the
   pointer it yielded and whether it failed (None / Err). *)
UnitApply(op, r, slab) ==
    /\ calls > 0
    /\ calls' = calls - 1
    /\ bundle' = [bundle EXCEPT ![tpidr[0]][3] = r.cache]
    /\ slabs' = [slabs EXCEPT ![3] = slab]
    /\ loc' = [loc EXCEPT !["t0"] =
                  [NoLoc EXCEPT !.op = op, !.ptr = r.ptr, !.flags = ~r.ok]]
    /\ UNCHANGED <<tpidr, slabInit, lock, fa_used, mask, pc, on, irqs, stats,
                   script, sp, ret>>

(* cache_line.alloc() *)
UnitAlloc ==
    LET r == PtrCacheAlloc(S6Mag)
    IN  /\ UnitApply("alloc", r, S3Slab)
        /\ live' = IF r.ok THEN live \cup {<<r.ptr, Layout(64, 64)>>} ELSE live

(* cache_line.free(ptr) *)
UnitFree ==
    \E e \in live :
        LET r == PtrCacheFree(S6Mag, e[1])
        IN  /\ UnitApply("dealloc", r, S3Slab)
            /\ live' = IF r.ok THEN live \ {e} ELSE live

(* cache_line.drain_into(&mut slab) *)
UnitDrain ==
    LET r == drain_into(S6Mag, S3Slab)
    IN  /\ UnitApply("drain", [cache |-> r.cache, ok |-> TRUE, ptr |-> NULL], r.slab)
        /\ UNCHANGED live

NextUnit == UnitAlloc \/ UnitFree \/ UnitDrain

SpecUnit == InitUnit /\ [][NextUnit]_vars

(***************************************************************************)
(* C23: drain_into on a magazine with count n frees floor(n/2) pointers to *)
(* the slab, the top of the stack first, so that they lie on the free list *)
(* in reverse order of freeing above what was there; the count becomes     *)
(* n - floor(n/2), the entries below it stay as they were, and the slab's  *)
(* pages are unchanged.                                                    *)
(***************************************************************************)
C23_DrainHalf ==
    [][loc'["t0"].op = "drain" /\ calls' < calls =>
           LET n == S6Mag.next_free
               h == n \div 2
           IN  /\ S6Mag'.next_free = n - h
               /\ \A i \in Slots : i < n - h => S6Mag'.ptrs[i] = S6Mag.ptrs[i]
               /\ Len(S3Slab'.free_list) = Len(S3Slab.free_list) + h
               /\ \A j \in 1..h :
                      S3Slab'.free_list[h + 1 - j] = S6Mag.ptrs[n - j]
               /\ SubSeq(S3Slab'.free_list, h + 1, Len(S3Slab'.free_list))
                      = S3Slab.free_list
               /\ S3Slab'.pages = S3Slab.pages]_vars

(* A magazine of 31 pointers has been drained: 15 freed, 16 kept. *)
C23_Witness ==
    /\ loc["t0"].op = "drain"
    /\ calls = MaxCalls - 1
    /\ S6Mag.next_free = 16
    /\ Len(S3Slab.free_list) = 17
    /\ Head(S3Slab.free_list) = UnitObj(17)

(***************************************************************************)
(* C24: a magazine is a bounded LIFO stack.  free(p) on a magazine that is *)
(* not full succeeds, and the alloc() that follows returns p and leaves    *)
(* the count and the entries below it as they were before the free;        *)
(* alloc() on an empty magazine returns None and free(p) on a full one     *)
(* returns Err(p), count and slots unchanged.                              *)
(***************************************************************************)
C24_BoundedLifo ==
    \A p \in {e[1] : e \in live} \cup {NULL} :
        LET m == S6Mag
            f == PtrCacheFree(m, p)
            a == PtrCacheAlloc(f.cache)
        IN  /\ ~is_full(m) =>
                   /\ f.ok
                   /\ f.cache.next_free = m.next_free + 1
                   /\ a.ok /\ a.ptr = p
                   /\ a.cache.next_free = m.next_free
                   /\ \A i \in Slots : i < m.next_free =>
                          a.cache.ptrs[i] = m.ptrs[i]
            /\ is_full(m) => f = [cache |-> m, ok |-> FALSE, ptr |-> p]
            /\ is_empty(m) =>
                   PtrCacheAlloc(m) = [cache |-> m, ok |-> FALSE, ptr |-> NULL]
            /\ m.next_free \in 0..PTRS_PER_SZ_CLASS

(* A free that filled the magazine was followed by an alloc, which
   returned the pointer just freed. *)
C24_Witness ==
    /\ loc["t0"].op = "alloc"
    /\ ~loc["t0"].flags
    /\ loc["t0"].ptr = UnitObj(33)
    /\ S6Mag.next_free = PTRS_PER_SZ_CLASS - 1
    /\ calls = MaxCalls - 2

(***************************************************************************)
(* C25: every step of an alloc or dealloc of class k executing on CPU c    *)
(* changes at most the class-k magazine of c's bundle and the class-k      *)
(* slab: all other magazines of c, all magazines of the other CPUs and all *)
(* other slabs are unchanged; a step of a huge call changes no magazine    *)
(* and no slab.                                                            *)
(***************************************************************************)
C25_FrameEffect ==
    [][\A x \in Ctxs :
           pc'[x] # pc[x] =>
               LET layout == IF pc[x] = "idle" THEN loc'[x].layout
                             ELSE loc[x].layout
                   k == ClassOf[layout]
               IN  /\ \A p \in DOMAIN bundle : \A j \in Classes :
                          p # tpidr[on[x]] \/ j # k =>
                              bundle'[p][j] = bundle[p][j]
                   /\ \A j \in Classes : j # k => slabs'[j] = slabs[j]]_vars

(***************************************************************************)
(* Specification: init_for_this_cpu at any time, any number of times       *)
(***************************************************************************)
(* The tasks allocate small objects while the CPUs are initialised. *)
NextReinit ==
    \/ InitSlab
    \/ \E c \in CPUs : init_for_this_cpu(c)
    \/ \E x \in Tasks : LiveAlloc(x)
    \/ \E x \in Tasks : AllocStep(x)

SpecReinit == InitBoot /\ [][NextReinit]_vars

(***************************************************************************)
(* C26: a step that writes a CPU's TPIDR_EL1 writes that CPU's slot only,  *)
(* with the address of a frame just taken from the frame allocator, in     *)
(* which lies a bundle of K+1 empty magazines, whatever the slot held      *)
(* before; the other CPUs' slots and all bundles that existed are          *)
(* unchanged by it.  A slot that is non-null never becomes null again, and *)
(* the frame of every bundle stays allocated.                              *)
(***************************************************************************)
C26_InitForThisCpu ==
    /\ [][/\ \A c \in CPUs :
                 tpidr'[c] # tpidr[c] =>
                     /\ tpidr'[c] # NULL
                     /\ tpidr'[c] \notin fa_used
                     /\ tpidr'[c] \in fa_used'
                     /\ tpidr'[c] \notin DOMAIN bundle
                     /\ DOMAIN bundle'[tpidr'[c]] = Classes
                     /\ Cardinality(Classes) = SLAB_MAX_OBJ_SHIFT + 1
                     /\ \A k \in Classes : bundle'[tpidr'[c]][k].next_free = 0
                     /\ \A d \in CPUs \ {c} : tpidr'[d] = tpidr[d]
                     /\ \A p \in DOMAIN bundle : bundle'[p] = bundle[p]
                     /\ UNCHANGED <<pc, slabs, lock, mask>>
          /\ \A c \in CPUs : tpidr[c] # NULL => tpidr'[c] # NULL
          /\ \A p \in DOMAIN bundle : p \in DOMAIN bundle']_vars
    /\ [](\A p \in DOMAIN bundle : p \in fa_used)
    /\ [](\A c \in CPUs : tpidr[c] # NULL => tpidr[c] \in DOMAIN bundle)

(* CPU 0 has run init_for_this_cpu a second time, after a call of its task
   had filled a magazine of the first bundle: the slot points to a new,
   empty bundle. *)
C26_Witness ==
    /\ tpidr[0] # NULL
    /\ Cardinality(DOMAIN bundle) >= 2
    /\ \E p \in DOMAIN bundle :
           /\ \A c \in CPUs : tpidr[c] # p
           /\ \E k \in Classes : bundle[p][k].next_free > 0
    /\ \A k \in Classes : bundle[tpidr[0]][k].next_free = 0
    /\ tpidr[1] = NULL

(***************************************************************************)
(* C27: a call that returns leaves the interrupt state of the CPU it       *)
(* returns on as the caller had it at entry.  Task context enters with     *)
(* interrupts enabled and has them enabled again at return; a handler      *)
(* enters with interrupts masked, has them masked at return, and at no     *)
(* step of its call are they enabled.  No other CPU's interrupt state is   *)
(* changed by the return.                                                  *)
(***************************************************************************)
C27_IrqStateKept ==
    [][\A x \in Ctxs :
           /\ (pc[x] = "idle" /\ pc'[x] # "idle") =>
                  mask[on[x]] = (IF x \in Tasks THEN None ELSE x)
           /\ (pc[x] = "drop" /\ pc'[x] = "idle") =>
                  /\ mask'[on[x]] = (IF x \in Tasks THEN None ELSE x)
                  /\ \A c \in CPUs \ {on[x]} : mask'[c] = mask[c]
           /\ (x \notin Tasks /\ pc[x] # "idle") => mask'[on[x]] = x]_vars

(* The handler of CPU 0 has returned from a call that took a slab lock,
   interrupts still masked, after the task of CPU 0 returned from one on
   CPU 1 with interrupts enabled there. *)
C27_Witness ==
    /\ pc[Handler(0)] = "idle"
    /\ mask[0] = Handler(0)
    /\ stats.locks[Handler(0)] >= 1
    /\ pc["t0"] = "idle"
    /\ on["t0"] = 1
    /\ mask[1] = None
    /\ stats.locks["t0"] >= 1

(***************************************************************************)
(* C28: for a huge layout calculate_huge_order is the least order with     *)
(* PAGE_SIZE << order >= max(size, align).  The alloc of the layout takes  *)
(* 2^order frames and the dealloc of the same layout, computing the order  *)
(* from the layout again, gives back exactly those.                        *)
(***************************************************************************)
C28_HugeOrder ==
    LET layout == script["t0"][1].layout
        n == Need(layout)
        o == calculate_huge_order(layout)
        taken == fa_used \ BootFrames(MemFrames)
    IN  n > ObjSize(SLAB_MAX_OBJ_SHIFT) =>
            /\ PAGE_SIZE * Pow2(o) >= n
            /\ o > 0 => PAGE_SIZE * Pow2(o - 1) < n
            /\ taken # {} => Cardinality(taken) = Pow2(o)
            /\ (live # {} \/ pc["t0"] \in {"d_cache", "d_huge"}) =>
                   /\ taken # {}
                   /\ \A f \in taken : PageOf(ret["t0"][1]) <= f
            /\ (loc["t0"].op = "dealloc" /\ pc["t0"] = "drop") => taken = {}
            /\ stats.dealloc > 0 => taken = {}

(* A layout of four pages and a byte has been allocated, which took eight
   frames, and freed again. *)
C28_Witness ==
    /\ script["t0"][1].layout = Layout(4 * PAGE_SIZE + 1, 8)
    /\ stats.dealloc = 1
    /\ ret["t0"] = <<PageVA(9)>>
    /\ fa_used = BootFrames(MemFrames)
    /\ pc["t0"] = "idle"

(***************************************************************************)
(* C29: lock discipline.  A call moves to the acquisition of a slab lock   *)
(* only from its look at the magazine, on underflow (alloc, count 0) or    *)
(* overflow (dealloc, count M); it acquires a lock only there, holding the *)
(* bundle pointer and with interrupts already disabled on its CPU, the     *)
(* lock is the one of the class of its layout, and it holds no lock when   *)
(* it acquires it; once it has released the lock it returns.  So a call    *)
(* acquires at most one slab lock, a huge call none, and no context ever   *)
(* holds two.                                                              *)
(***************************************************************************)
C29_LockDiscipline ==
    /\ [](\A x \in Ctxs : Cardinality({k \in Classes : lock[k] = x}) <= 1)
    /\ [](\A x \in Ctxs : Holds(x) => pc[x] \in InSlabPcs \cup {"panic"})
    /\ [][\A x \in Ctxs :
             LET mag == bundle[loc[x].cache][loc'[x].cls]
             IN  /\ (pc'[x] = "a_lock" /\ pc[x] # "a_lock") =>
                        pc[x] = "a_cache" /\ mag.next_free = 0
                 /\ (pc'[x] = "d_lock" /\ pc[x] # "d_lock") =>
                        pc[x] = "d_cache" /\ mag.next_free = PTRS_PER_SZ_CLASS
                 /\ \A k \in Classes :
                        (lock'[k] = x /\ lock[k] # x) =>
                            /\ pc[x] \in {"a_lock", "d_lock"}
                            /\ k = ClassOf[loc[x].layout]
                            /\ ~IsHuge(loc[x].layout)
                            /\ loc[x].cache # NULL
                            /\ mask[on[x]] = x
                            /\ ~Holds(x)
                            /\ lock[k] = None
                 /\ (pc[x] = "unlock" /\ pc'[x] # pc[x]) =>
                        pc'[x] = "drop" /\ ~Holds(x)'
                 /\ (pc[x] = "drop" /\ pc'[x] # pc[x]) => pc'[x] = "idle"
                 /\ (pc[x] = "a_cache" /\ pc'[x] # pc[x]) =>
                        pc'[x] \in {"a_read", "a_lock", "a_huge", "panic"}
                 /\ (pc[x] = "d_cache" /\ pc'[x] # pc[x]) =>
                        pc'[x] \in {"d_inc", "d_lock", "d_huge", "panic"}
                 /\ (pc[x] \in {"a_huge", "d_huge", "a_read", "d_inc"} /\ pc'[x] # pc[x]) =>
                        pc'[x] \in {"drop", "panic"}]_vars

(* The handler of CPU 0 holds the lock of the class of its request, taken
   on underflow, while the task migrated from CPU 0 waits for the same lock
   on CPU 1. *)
C29_Witness ==
    /\ pc[Handler(0)] = "a_slab"
    /\ lock[loc[Handler(0)].cls] = Handler(0)
    /\ pc["t0"] \in {"a_lock", "d_lock"}
    /\ on["t0"] = 1
    /\ loc["t0"].cls = loc[Handler(0)].cls

====
